---- MODULE Spec2Model ----
(***************************************************************************)
(* monizze_csv: retrieval of the Monizze transaction history page by page  *)
(* (MonizzeClient), its deduplication in a set of MonizzeTransaction, and   *)
(* the merge of the retrieved history with the CSV file of earlier runs    *)
(* (save_csv).                                                             *)
(*                                                                         *)
(* Texts are TLA+ strings.  A CSV file is the sequence of its rows, a row  *)
(* the sequence of its column texts.  A float is modelled by the integer   *)
(* it equals (the amounts of the model are whole numbers), a datetime by   *)
(* the position of its day on the calendar.                                *)
(***************************************************************************)
EXTENDS Integers, Sequences, FiniteSets, TLC

\* ------------------------------------------------------------------ bounds
\* number of distinct calendar days the source reports
MaxDate == 2
\* entries in one page of the source
MaxPage == 1
\* transactions accumulated by one retrieval
MaxHistory == 2
\* runs of the program
MaxRuns == 3
\* data rows of a file the program did not write itself
MaxOldRows == 2

\* ------------------------------------------------------------------ texts
\* ISO-8601 day texts, all of the form YYYY-MM-DD, in calendar order
AllDates == <<"2023-01-01", "2023-06-01", "2024-01-01", "2024-06-01", "2025-01-01">>

\* the days the source reports transactions of
Dates == {AllDates[i] : i \in 1..MaxDate}

\* what a conversion gives when the Python call raises
ParseError == -1000

\* datetime.fromisoformat(text): the datetime of an ISO text (its calendar
\* position), ValueError for any other text
fromisoformat(t) ==
    IF \E i \in 1..Len(AllDates) : AllDates[i] = t
    THEN CHOOSE i \in 1..Len(AllDates) : AllDates[i] = t
    ELSE ParseError

\* float(text): the amounts the model knows, with the texts that denote them
float(t) ==
    CASE t \in {"-1.00", "-1.0", "-1"} -> -1
      [] t \in {"-2.00", "-2.0", "-2"} -> -2
      [] t \in {"5.00", "5.0", "5"} -> 5
      [] OTHER -> ParseError

\* repr(float), as csv.writer renders a float column
repr(x) ==
    CASE x = -1 -> "-1.0"
      [] x = -2 -> "-2.0"
      [] x = 5 -> "5.0"
      [] OTHER -> "nan"

\* ------------------------------------------------------------------ hashing
\* A Python int in two's complement of unbounded width is modelled by the set
\* of the bit positions at which it differs from its sign extension, with
\* SignBit in the set when it is negative; a ^ b is then the symmetric
\* difference of the two sets.
SignBit == -1

RECURSIVE Bits(_, _)
Bits(n, pos) ==
    IF n = 0 THEN {}
    ELSE (IF n % 2 = 1 THEN {pos} ELSE {}) \cup Bits(n \div 2, pos + 1)

IntBits(x) == IF x >= 0 THEN Bits(x, 0) ELSE {SignBit} \cup Bits(-x - 1, 0)

Xor(a, b) == (a \ b) \cup (b \ a)

\* hash(float) of a whole number is the number itself, except that CPython
\* keeps -1 for errors and gives -2 instead
HashFloat(x) == IF x = -1 THEN IntBits(-2) ELSE IntBits(x)

\* hash(str): SipHash under the run's seed; modelled by one bit of its own per
\* text, so that no two texts, and no combination of texts, collide by chance
StrTexts == <<"2023-01-01", "2023-06-01", "2024-01-01", "2024-06-01", "2025-01-01",
              "eco", "meal", "shop">>

HashStr(t) == {100 + (CHOOSE i \in 1..Len(StrTexts) : StrTexts[i] = t)}

\* MonizzeTransaction.__init__
MonizzeTransaction(date, voucher, amount, detail) ==
    [date |-> date, voucher |-> voucher, amount |-> float(amount), detail |-> detail]

\* MonizzeTransaction.__hash__
hash(t) == Xor(Xor(Xor(HashStr(t.date), HashStr(t.voucher)), HashFloat(t.amount)),
               HashStr(t.detail))

\* MonizzeTransaction.__eq__
eq(a, b) == hash(a) = hash(b)

\* MonizzeTransaction.row, as csv.writer writes it
row(t) == <<t.date, t.voucher, repr(t.amount), t.detail>>

\* ------------------------------------------------------------------ save_csv
\* the header row save_csv writes first
Header == <<"Date", "Monizze Voucher", "Amount", "Detail">>

\* the CSV file at the path: whether it exists, and its rows (header included)
NoFile == [exists |-> FALSE, rows |-> <<>>]

RECURSIVE Rows(_)
\* for transaction in ...: writer.writerow(transaction.row)
Rows(ts) == IF ts = <<>> THEN <<>> ELSE <<row(Head(ts))>> \o Rows(Tail(ts))

\* the comparison of the scan, were it dt <= oldest
older_OrEqual(dt, oldest) == dt <= oldest

\* the comparison of the scan: dt < oldest
older(dt, oldest) == dt < oldest

RECURSIVE Scan(_, _, _, _)
\* the while loop over the rows of the old file, from row i on, old being the
\* transactions kept so far; gives the kept transactions and how the loop ended
Scan(rows, i, oldest, old) ==
    IF i > Len(rows) THEN [old |-> old, outcome |-> "StopIteration"]
    ELSE LET r == rows[i] IN
         IF Len(r) = 0 THEN [old |-> old, outcome |-> "IndexError"]
         ELSE LET dt == fromisoformat(r[1]) IN
              IF dt = ParseError THEN [old |-> old, outcome |-> "ValueError"]
              ELSE IF older(dt, oldest)
              THEN IF Len(r) # 4 THEN [old |-> old, outcome |-> "TypeError"]
                   ELSE IF float(r[3]) = ParseError
                   THEN [old |-> old, outcome |-> "ValueError"]
                   ELSE Scan(rows, i + 1, oldest,
                             Append(old, MonizzeTransaction(r[1], r[2], r[3], r[4])))
              ELSE [old |-> old, outcome |-> "ok"]

\* the write step, were it to write history + old
WriteCsv_FreshFirst(old, history) ==
    [exists |-> TRUE, rows |-> <<Header>> \o Rows(history \o old)]

\* the write step: the file is opened "w+" and written whole
WriteCsv(old, history) ==
    [exists |-> TRUE, rows |-> <<Header>> \o Rows(old \o history)]

\* save_csv, were the file opened "w+" before the old rows are scanned: a
\* failure of the scan leaves the file truncated
save_csv_TruncatesFirst(f, history) ==
    IF Len(history) = 0 THEN [file |-> f, outcome |-> "IndexError"]
    ELSE LET oldest == fromisoformat(history[1].date) IN
         IF oldest = ParseError THEN [file |-> f, outcome |-> "ValueError"]
         ELSE IF ~f.exists
         THEN [file |-> WriteCsv(<<>>, history), outcome |-> "written"]
         ELSE IF Len(f.rows) = 0
         THEN [file |-> [exists |-> TRUE, rows |-> <<>>], outcome |-> "StopIteration"]
         ELSE LET s == Scan(f.rows, 2, oldest, <<>>) IN
              IF s.outcome = "ok"
              THEN [file |-> WriteCsv(s.old, history), outcome |-> "written"]
              ELSE [file |-> [exists |-> TRUE, rows |-> <<>>], outcome |-> s.outcome]

\* save_csv, were an empty history skipped over instead of indexed: the file
\* is replaced by the header alone
save_csv_EmptyWritesHeader(f, history) ==
    IF Len(history) = 0 THEN [file |-> WriteCsv(<<>>, <<>>), outcome |-> "written"]
    ELSE LET oldest == fromisoformat(history[1].date) IN
         IF oldest = ParseError THEN [file |-> f, outcome |-> "ValueError"]
         ELSE IF ~f.exists
         THEN [file |-> WriteCsv(<<>>, history), outcome |-> "written"]
         ELSE IF Len(f.rows) = 0 THEN [file |-> f, outcome |-> "StopIteration"]
         ELSE LET s == Scan(f.rows, 2, oldest, <<>>) IN
              IF s.outcome = "ok"
              THEN [file |-> WriteCsv(s.old, history), outcome |-> "written"]
              ELSE [file |-> f, outcome |-> s.outcome]

\* save_csv(path, history) on the file f at path: the file it leaves and how it
\* ended ("written", or the exception it raised)
save_csv(f, history) ==
    IF Len(history) = 0 THEN [file |-> f, outcome |-> "IndexError"]
    ELSE LET oldest == fromisoformat(history[1].date) IN
         IF oldest = ParseError THEN [file |-> f, outcome |-> "ValueError"]
         ELSE IF ~f.exists
         THEN [file |-> WriteCsv(<<>>, history), outcome |-> "written"]
         ELSE IF Len(f.rows) = 0 THEN [file |-> f, outcome |-> "StopIteration"]
         ELSE LET s == Scan(f.rows, 2, oldest, <<>>) IN
              IF s.outcome = "ok"
              THEN [file |-> WriteCsv(s.old, history), outcome |-> "written"]
              ELSE [file |-> f, outcome |-> s.outcome]

\* ------------------------------------------------------------------ the source
Vouchers == {"eco"}
SourceAmounts == {"-1.00", "-2.00", "5.00"}
Details == {"shop"}

\* one entry of a page of the source, with the voucher it is listed under
Entries == [date : Dates, voucher : Vouchers, amount : SourceAmounts, detail : Details]

\* the bodies a history response can carry: the entries of its "data", in the
\* order the loops of _add_to_history visit them
Pages == UNION {[1..n -> Entries] : n \in 0..MaxPage}

\* HTTP statuses of the responses: 200, and the ones _handle_response aborts on
Statuses == {200, 400, 401, 403, 429, 500}

\* _handle_response: the statuses that set _abort
AbortStatus(status) == status \in {500, 400, 401, 403, 429}

\* history.add(transaction): a set keeps the element it has when the new one is
\* equal to it (__hash__ and then __eq__)
SetAdd(set, t) == IF \E u \in set : eq(u, t) THEN set ELSE set \cup {t}

RECURSIVE add_to_history(_, _)
\* MonizzeClient._add_to_history, over the entries of the page in order
add_to_history(page, set) ==
    IF page = <<>> THEN set
    ELSE LET e == Head(page) IN
         add_to_history(Tail(page),
                        SetAdd(set, MonizzeTransaction(e.date, e.voucher, e.amount, e.detail)))

\* the orders in which iterating a set can yield its elements (the order follows
\* the hashes, which change with the seed of each process)
IterationOrders(set) ==
    {o \in [1..Cardinality(set) -> set] : \A i, j \in DOMAIN o : i # j => o[i] # o[j]}

RECURSIVE Insert(_, _)
\* t put after the last element of the sorted seq whose date is not later
Insert(seq, t) ==
    IF seq = <<>> THEN <<t>>
    ELSE LET l == seq[Len(seq)] IN
         IF fromisoformat(l.date) <= fromisoformat(t.date) THEN Append(seq, t)
         ELSE Append(Insert(SubSeq(seq, 1, Len(seq) - 1), t), l)

RECURSIVE SortFrom(_, _)
SortFrom(seq, acc) == IF seq = <<>> THEN acc ELSE SortFrom(Tail(seq), Insert(acc, Head(seq)))

\* get_history, were it to return list(history)
sorted_Unsorted(order) == order

\* sorted(history, key=lambda transaction: transaction.date): a stable sort of
\* the order the set is iterated in
sorted(order) == SortFrom(order, <<>>)

\* the lists get_history can return for the accumulated set
get_history_returns(set) == {sorted(o) : o \in IterationOrders(set)}

\* the loop's test, were the comparison of the sizes left out
grew_Always(len_t0, len_t1) == TRUE

\* the loop's test after a page: keep paging unless len(history) == len_t0
grew(len_t0, len_t1) == len_t1 # len_t0

\* ------------------------------------------------------------------ state
VARIABLES
    pc,           \* where the run is: "login", "get_history", "paging", "save",
                  \* "done", "exited" (exit(1) in page), "crashed" (an exception)
    abort,        \* MonizzeClient._abort
    history,      \* the set get_history accumulates
    keep_paging,  \* get_history's loop flag
    page,         \* the entries of the response r that was added last
    result,       \* the list the last get_history returned, save_csv's argument
    file,         \* the CSV file at the output path
    outcome,      \* how save_csv ended in this run ("none" before it ran)
    prev,         \* the file as save_csv found it in this run
    lastWritten,  \* the list of the last call of save_csv that wrote the file
    fetched,      \* history pages requested in this run
    signal,       \* a page of this run left the set's size unchanged, or the
                  \* "load more" control was unavailable
    loopSignal,   \* the same, for the pages the paging loop requested
    runs          \* runs of the program started so far

vars == <<pc, abort, history, keep_paging, page, result, file, outcome, prev, lastWritten,
          fetched, signal, loopSignal, runs>>

\* sync_playwright() / MonizzeClient.__init__: a fresh process and client
Start ==
    /\ pc = "login"
    /\ abort = FALSE
    /\ history = {}
    /\ keep_paging = TRUE
    /\ page = <<>>
    /\ result = <<>>
    /\ lastWritten = <<>>
    /\ outcome = "none"
    /\ prev = NoFile
    /\ fetched = 0
    /\ signal = FALSE
    /\ loopSignal = FALSE
    /\ runs = 1

\* the first run finds no file at the path
Init == Start /\ file = NoFile

\* ------------------------------------------------------------------ actions
\* MonizzeClient.login: every self.page exits once _abort is set; a response
\* with an abort status or the login timeout sets it
Login ==
    /\ pc = "login"
    /\ \E how \in {"ok", "abort_then_page", "abort_at_end"} :
         /\ abort' = (how # "ok")
         /\ pc' = IF how = "abort_then_page" THEN "exited" ELSE "get_history"
    /\ UNCHANGED <<history, keep_paging, page, result, file, outcome, prev, lastWritten,
                   fetched, signal, loopSignal, runs>>

\* get_history up to the loop: the first page
FirstPage ==
    /\ pc = "get_history"
    /\ IF abort
       THEN /\ pc' = "exited"
            /\ UNCHANGED <<abort, history, keep_paging, page, fetched, signal>>
       ELSE \E body \in Pages :
              /\ Cardinality(add_to_history(body, {})) <= MaxHistory
              /\ abort' \in {AbortStatus(status) : status \in Statuses}
              /\ page' = body
              /\ history' = add_to_history(body, {})
              /\ keep_paging' = TRUE
              /\ fetched' = fetched + 1
              /\ signal' = (Cardinality(history') = Cardinality(history))
              /\ pc' = "paging"
    /\ UNCHANGED <<result, file, outcome, prev, lastWritten, loopSignal, runs>>

\* one iteration of the while loop: the click on "load more" times out, or
\* the next page arrives and is added
NextPage ==
    /\ pc = "paging"
    /\ keep_paging
    /\ IF abort
       THEN /\ pc' = "exited"
            /\ UNCHANGED <<abort, history, keep_paging, page, fetched, signal, loopSignal>>
       ELSE \/ /\ keep_paging' = FALSE
               /\ signal' = TRUE
               /\ loopSignal' = TRUE
               /\ UNCHANGED <<pc, abort, history, page, fetched>>
            \/ \E body \in Pages :
                 /\ Cardinality(add_to_history(body, history)) <= MaxHistory
                 /\ abort' \in {AbortStatus(status) : status \in Statuses}
                 /\ page' = body
                 /\ history' = add_to_history(body, history)
                 /\ keep_paging' = grew(Cardinality(history), Cardinality(history'))
                 /\ fetched' = fetched + 1
                 /\ signal' = (signal \/ Cardinality(history') = Cardinality(history))
                 /\ loopSignal' = (loopSignal \/ Cardinality(history') = Cardinality(history))
                 /\ pc' = "paging"
    /\ UNCHANGED <<result, file, outcome, prev, lastWritten, runs>>

\* a response body without "data", or an entry without its fields: loads or
\* the lookups of _add_to_history raise
BadPage ==
    /\ pc \in {"get_history", "paging"}
    /\ keep_paging
    /\ ~abort
    /\ pc' = "crashed"
    /\ UNCHANGED <<abort, history, keep_paging, page, result, file, outcome, prev,
                   lastWritten, fetched, signal, loopSignal, runs>>

\* the loop ends: _close() and return sorted(history, ...)
Return ==
    /\ pc = "paging"
    /\ ~keep_paging
    /\ result' \in get_history_returns(history)
    /\ page' = <<>>
    /\ pc' = "save"
    /\ UNCHANGED <<abort, history, keep_paging, file, outcome, prev, lastWritten,
                   fetched, signal, loopSignal, runs>>

\* save_csv(args.output_path, mc.get_history())
SaveCsv ==
    /\ pc = "save"
    /\ LET r == save_csv(file, result) IN
         /\ file' = r.file
         /\ outcome' = r.outcome
         /\ lastWritten' = IF r.outcome = "written" THEN result ELSE lastWritten
         /\ pc' = IF r.outcome = "written" THEN "done" ELSE "crashed"
    /\ prev' = file
    /\ UNCHANGED <<abort, history, keep_paging, page, result,
                   fetched, signal, loopSignal, runs>>

\* the program is run again on the same path
NewRun ==
    /\ pc \in {"done", "exited", "crashed"}
    /\ runs < MaxRuns
    /\ pc' = "login"
    /\ abort' = FALSE
    /\ history' = {}
    /\ keep_paging' = TRUE
    /\ page' = <<>>
    /\ outcome' = "none"
    /\ fetched' = 0
    /\ signal' = FALSE
    /\ loopSignal' = FALSE
    /\ prev' = NoFile
    /\ runs' = runs + 1
    /\ UNCHANGED <<result, file, lastWritten>>

Next == Login \/ FirstPage \/ NextPage \/ BadPage \/ Return \/ SaveCsv \/ NewRun

Spec == Init /\ [][Next]_vars

\* the loop of get_history goes on while the program runs
FairSpec == Spec /\ WF_vars(NextPage) /\ WF_vars(Return)

\* ------------------------------------------------------------------ any file
\* rows a file the program did not write can hold: amounts in another notation,
\* an unparsable date, an unparsable amount, a missing column, a blank line
ForeignRows ==
    {<<d, "eco", "5", "shop">> : d \in Dates}
    \cup {<<d, "eco", "abc", "shop">> : d \in Dates}
    \cup {<<"n/a", "eco", "5.0", "shop">>, <<AllDates[1], "eco", "5.0">>, <<>>}

ForeignFiles ==
    {[exists |-> TRUE, rows |-> <<Header>> \o body] :
        body \in UNION {[1..n -> ForeignRows] : n \in 0..MaxOldRows}}
    \cup {[exists |-> TRUE, rows |-> <<>>], NoFile}

\* the program is run on a path where any file may lie
InitAny == Start /\ file \in ForeignFiles

SpecAny == InitAny /\ [][Next]_vars

\* ------------------------------------------------------------------ claims
\* save_csv was called in this run: prev is the file it found, result its
\* argument, file what it left and outcome how it ended
Saved == outcome # "none"

\* the datetime of a row of the file (ParseError: none can be read)
RowDate(r) == IF Len(r) = 0 THEN ParseError ELSE fromisoformat(r[1])

\* the oldest date of the fresh collection
Oldest == fromisoformat(result[1].date)

\* positions of the rows of f that are not strictly older than oldest
NotOlder(f, oldest) == {i \in 2..Len(f.rows) : ~(RowDate(f.rows[i]) < oldest)}

\* the position of the first of them
FirstNotOlder(f, oldest) ==
    CHOOSE i \in NotOlder(f, oldest) : \A j \in NotOlder(f, oldest) : i <= j

\* C1: with a non-empty fresh collection and an old file holding a row that is
\* not strictly older than oldest, save_csv writes the header, the rows of the
\* old file before the first such row, then the fresh collection; with no old
\* file it writes the header and the fresh collection.
C1_MergeIsPrefixThenFresh ==
    (Saved /\ Len(result) > 0) =>
        /\ ~prev.exists =>
             /\ outcome = "written"
             /\ file = [exists |-> TRUE, rows |-> <<Header>> \o Rows(result)]
        /\ (prev.exists /\ NotOlder(prev, Oldest) # {}) =>
             /\ outcome = "written"
             /\ file = [exists |-> TRUE,
                        rows |-> <<Header>>
                                 \o SubSeq(prev.rows, 2, FirstNotOlder(prev, Oldest) - 1)
                                 \o Rows(result)]

\* C1 witness: a run has merged a fresh collection of two with a file of which
\* it kept a prefix and dropped the rest
C1_Witness ==
    /\ Saved /\ outcome = "written" /\ Len(result) = 2
    /\ prev.exists /\ NotOlder(prev, Oldest) # {}
    /\ FirstNotOlder(prev, Oldest) > 2

\* C2: when every row of the old file is strictly older than oldest, the merge
\* succeeds and writes the whole old file followed by the fresh collection.
C2_WholeFileKept ==
    (/\ Saved /\ Len(result) > 0
     /\ prev.exists /\ Len(prev.rows) >= 2
     /\ \A i \in 2..Len(prev.rows) : RowDate(prev.rows[i]) # ParseError
                                     /\ RowDate(prev.rows[i]) < Oldest)
    => /\ outcome = "written"
       /\ file = [exists |-> TRUE, rows |-> prev.rows \o Rows(result)]

\* a row that can be turned into a transaction
WellFormed(r) == Len(r) = 4 /\ RowDate(r) # ParseError /\ float(r[3]) # ParseError

\* the scan reaches row i: every row before it is well formed and older
Reached(f, i, oldest) ==
    \A j \in 2..(i - 1) : WellFormed(f.rows[j]) /\ RowDate(f.rows[j]) < oldest

\* C3 as stated: if a row the scan reaches cannot be parsed (its date, or the
\* row as a transaction), save_csv fails and the file is as it was.
C3_AnyUnparsableRowAborts ==
    (/\ Saved /\ Len(result) > 0 /\ prev.exists
     /\ \E i \in 2..Len(prev.rows) : Reached(prev, i, Oldest) /\ ~WellFormed(prev.rows[i]))
    => (outcome # "written" /\ file = prev)

\* C3 amended: if the scan reaches a row whose date cannot be parsed, or a row
\* strictly older than oldest that cannot be turned into a transaction,
\* save_csv fails before the write step and the file is as it was.
C3_UnparsableScannedRowAborts ==
    (/\ Saved /\ Len(result) > 0 /\ prev.exists
     /\ \E i \in 2..Len(prev.rows) :
          /\ Reached(prev, i, Oldest)
          /\ \/ RowDate(prev.rows[i]) = ParseError
             \/ RowDate(prev.rows[i]) < Oldest /\ ~WellFormed(prev.rows[i]))
    => (outcome \notin {"written", "none"} /\ file = prev)

\* C3 witness: save_csv kept a first row, failed on the second, and the file
\* still holds both
C3_Witness ==
    /\ Saved /\ Len(result) > 0 /\ prev.exists /\ Len(prev.rows) = 3
    /\ WellFormed(prev.rows[2]) /\ RowDate(prev.rows[2]) < Oldest
    /\ ~WellFormed(prev.rows[3])
    /\ outcome \in {"ValueError", "TypeError", "IndexError"}
    /\ file = prev

\* C4: transactions are the same for the set only when equal in all four
\* fields, so every transaction of the page just added is in the set: none
\* was dropped for another one that differs from it in a field.
C4_FieldwiseIdentity ==
    pc = "paging" =>
        \A i \in DOMAIN page :
            MonizzeTransaction(page[i].date, page[i].voucher, page[i].amount, page[i].detail)
                \in history

\* C5: in a run in which the abort flag is set, save_csv never writes the
\* file.
C5_AbortedRunNeverWrites == abort => outcome # "written"

\* C6 as stated: after a page that left the size of the set unchanged, or a
\* "load more" that was unavailable, no further page is requested.
C6_NoFetchAfterAnySignal == [][signal => fetched' <= fetched]_vars

\* C6 amended: after a page requested by the paging loop left the size of the
\* set unchanged, or a "load more" was unavailable, no further page is
\* requested, and the paging loop is always left.
C6_NoFetchAfterLoopSignal ==
    /\ [][loopSignal => fetched' <= fetched]_vars
    /\ (pc = "paging") ~> (pc # "paging")

\* C6 witness: the loop was left after a page that added nothing, after pages
\* that added something
C6_Witness == pc = "save" /\ loopSignal /\ fetched = 3 /\ Cardinality(history) = 2

Range(seq) == {seq[i] : i \in DOMAIN seq}

\* C7: what get_history returns is in non-decreasing date order, and when the
\* accumulated set is the set of the run before, so is the list returned.
C7_SortedAndDeterministic ==
    /\ [](pc = "save" =>
            \A i \in 1..(Len(result) - 1) :
                fromisoformat(result[i].date) <= fromisoformat(result[i + 1].date))
    /\ [][(pc = "paging" /\ pc' = "save" /\ Range(result) = history) => result' = result]_vars

\* C8: called with an empty collection, save_csv fails on history[0] and the
\* file is as it was: not created, not truncated, not replaced.
C8_EmptyCollectionLeavesFile ==
    (Saved /\ Len(result) = 0) => (outcome = "IndexError" /\ file = prev)

\* C8 witness: a run with an empty collection has failed on a file that an
\* earlier run wrote
C8_Witness == Saved /\ Len(result) = 0 /\ prev.exists /\ file = prev

\* C9: from no file, after any runs, the file when it exists has a data row
\* and its data rows are in non-decreasing date order.
C9_FileSortedAndNonEmpty ==
    file.exists =>
        /\ Len(file.rows) >= 2
        /\ \A i \in 2..Len(file.rows) : RowDate(file.rows[i]) # ParseError
        /\ \A i \in 2..(Len(file.rows) - 1) :
               RowDate(file.rows[i]) <= RowDate(file.rows[i + 1])

\* C9 witness: a later run has written a file of a kept prefix of an older
\* date and two fresh rows
C9_Witness ==
    /\ runs >= 2 /\ outcome = "written" /\ Len(result) = 2
    /\ Len(file.rows) > 3
    /\ RowDate(file.rows[2]) < RowDate(file.rows[Len(file.rows)])

\* C10: save_csv called again with the collection that the last write was
\* called with writes, and leaves the file as it is.
C10_RerunIsIdempotent ==
    [][(pc = "save" /\ Len(result) > 0 /\ lastWritten = result)
          => (outcome' = "written" /\ file' = file)]_vars

\* C10 witness: a second call with the same collection has written, on a file
\* with a kept prefix, and the file is the one it found
C10_Witness ==
    /\ Saved /\ outcome = "written" /\ runs = 3
    /\ prev = file
    /\ Len(file.rows) > Len(result) + 1

====
